---- MODULE Spec2Model ----
(***************************************************************************)
(* The Karplus-Strong notebook: freq (note name -> frequency), KS (the     *)
(* feedback loop with the pitch-normalised decay) and ks_chord (the sum of *)
(* one KS voice per note of a chord).                                      *)
(*                                                                         *)
(* Samples, coefficients and frequencies are real numbers.  They are kept  *)
(* exactly, as finite sums of terms m * 2^(e/Unit) with m an odd integer,  *)
(* so that alpha ** (M/50) and 2 ** (n/12) are computed, not assumed.      *)
(* Floating-point rounding is not modelled.                                *)
(***************************************************************************)
EXTENDS Integers, Sequences, FiniteSets, TLC

\* ------------------------------------------------------------- constants
Fs == 16000
REF_LEN == 50
A4 == 440

\* ---------------------------------------------------------------- bounds
MaxLen == 3
MaxN == 10
MaxNoteLen == 3
MaxVoices == 2
MaxChordN == 4

\* ------------------------------------------------------- exact arithmetic
\* One exponent step is 1/Unit: both M/REF_LEN and n/12 are whole numbers of
\* steps when the base is a power of two.
Unit == 12 * REF_LEN

Term(e, m) == [e |-> e, m |-> m]

RECURSIVE Pow2(_)
Pow2(k) == IF k <= 0 THEN 1 ELSE 2 * Pow2(k - 1)

\* m * 2^(e/Unit) in normal form: the coefficient odd, or the empty sum.
RECURSIVE Normal(_, _)
Normal(e, m) ==
    IF m = 0 THEN {}
    ELSE IF m % 2 = 0 THEN Normal(e + Unit, m \div 2)
    ELSE {Term(e, m)}

Zero == {}
Num(k) == Normal(0, k)
One == Num(1)
\* 2^j for any integer j
TwoTo(j) == {Term(j * Unit, 1)}
Neg(u) == {Term(t.e, 0 - t.m) : t \in u}

\* u + t: terms whose exponents differ by whole powers of two are collected.
AddTerm(u, t) ==
    LET same == {s \in u : s.e % Unit = t.e % Unit} IN
    IF same = {} THEN u \cup {t}
    ELSE LET s == CHOOSE s \in same : TRUE
             e0 == IF s.e < t.e THEN s.e ELSE t.e
             m == s.m * Pow2((s.e - e0) \div Unit) + t.m * Pow2((t.e - e0) \div Unit)
         IN (u \ {s}) \cup Normal(e0, m)

RECURSIVE Add(_, _)
Add(u, v) ==
    IF v = {} THEN u
    ELSE LET t == CHOOSE t \in v : TRUE IN Add(AddTerm(u, t), v \ {t})

MulTerm(u, t) == {Term(s.e + t.e, s.m * t.m) : s \in u}

RECURSIVE Mul(_, _)
Mul(u, v) ==
    IF v = {} THEN Zero
    ELSE LET t == CHOOSE t \in v : TRUE IN Add(MulTerm(u, t), Mul(u, v \ {t}))

\* mutant: a power that never raises
PowNeverRaises(b, p, q) == FALSE

\* Python 2 float power b ** (p/q), for b = 0 or b = +-2^j and p >= 0, q > 0.
\* A negative base with a fractional exponent raises ValueError.
PowRaises(b, p, q) ==
    /\ p % q # 0
    /\ \E t \in b : t.m < 0

PowValue(b, p, q) ==
    IF p = 0 THEN One
    ELSE IF b = Zero THEN Zero
    ELSE LET t == CHOOSE t \in b : TRUE
             r == {Term((t.e * p) \div q, 1)}
         IN IF t.m < 0 /\ (p \div q) % 2 = 1 THEN Neg(r) ELSE r

\* ------------------------------------------------------------- sequences
\* 0-based indexing, as in the source
At(s, i) == s[i + 1]
Zeros(len) == [i \in 1..len |-> Zero]
Seqs(S, len) == [1..len -> S]

VecAdd(u, v) == [i \in 1..Len(u) |-> Add(u[i], v[i])]
Scale(g, v) == [i \in 1..Len(v) |-> Mul(g, v[i])]

\* ------------------------------------------------------------------ freq
Ord ==
    [c \in {"#", "-", "0", "1", "2", "3", "4", "5", "6", "7", "8", "9", "@",
            "A", "B", "C", "D", "E", "F", "G", "H", "b", "x"} |->
        CASE c = "#" -> 35 [] c = "-" -> 45
          [] c = "0" -> 48 [] c = "1" -> 49 [] c = "2" -> 50 [] c = "3" -> 51
          [] c = "4" -> 52 [] c = "5" -> 53 [] c = "6" -> 54 [] c = "7" -> 55
          [] c = "8" -> 56 [] c = "9" -> 57 [] c = "@" -> 64
          [] c = "A" -> 65 [] c = "B" -> 66 [] c = "C" -> 67 [] c = "D" -> 68
          [] c = "E" -> 69 [] c = "F" -> 70 [] c = "G" -> 71 [] c = "H" -> 72
          [] c = "b" -> 98 [] c = "x" -> 120]

\* mutant: the octave character taken as a digit without the upper limit
IsDigitLoose(c) == Ord[c] >= Ord["0"]

\* whether int(c) accepts the one-character string c
IsDigit(c) == Ord[c] >= Ord["0"] /\ Ord[c] <= Ord["9"]
\* int(c) of a one-character string: its value, and ValueError for a non-digit
IntOf(c) == Ord[c] - Ord["0"]

SEMITONES ==
    [c \in {"A", "B", "C", "D", "E", "F", "G"} |->
        CASE c = "A" -> 0 [] c = "B" -> 2 [] c = "C" -> 0 - 9 [] c = "D" -> 0 - 7
          [] c = "E" -> 0 - 5 [] c = "F" -> 0 - 4 [] c = "G" -> 0 - 2]

Returned(v) == [exc |-> "none", val |-> v]
Raised(e) == [exc |-> e, val |-> Zero]

\* the frequency of semitone offset n from A4
FreqOfSemitone(n) == Mul(Num(A4), PowValue(TwoTo(1), n, 12))

\* mutant: the octave counted as one semitone instead of twelve
OffsetNoTwelve(letter, acc, octave) == (octave - 4) + SEMITONES[letter] + acc

\* n = 12 * (octave - 4) + SEMITONES[note[0]] + acc
Offset(letter, acc, octave) == 12 * (octave - 4) + SEMITONES[letter] + acc

\* octave = int(...) and the lines after it
FreqTail(note, acc, oc) ==
    IF ~IsDigit(oc) THEN Raised("ValueError")
    ELSE Returned(FreqOfSemitone(Offset(At(note, 0), acc, IntOf(oc))))

\* note is the string, a sequence of one-character strings
freq(note) ==
    IF Len(note) < 2 \/ Len(note) > 3
       \/ Ord[At(note, 0)] < Ord["A"] \/ Ord[At(note, 0)] > Ord["G"]
    THEN Returned(Zero)
    ELSE IF Len(note) = 3
    THEN IF At(note, 1) = "b" THEN FreqTail(note, 0 - 1, At(note, 2))
         ELSE IF At(note, 1) = "#" THEN FreqTail(note, 1, At(note, 2))
         ELSE Returned(Zero)
    ELSE FreqTail(note, 0, At(note, 1))

\* ------------------------------------------------ np.round(Fs / freq(note))
\* 2^(r/12) to five decimals, r = 0..11
SemitoneRatio ==
    <<100000, 105946, 112246, 118921, 125992, 133484,
      141421, 149831, 158740, 168179, 178180, 188775>>

RECURSIVE GCD(_, _)
GCD(p, q) == IF q = 0 THEN p ELSE GCD(q, p % q)

\* int(np.round(float(num) / f)) for a frequency f = m * 2^(e/Unit), m > 0
RoundDiv(num, f) ==
    LET t == CHOOSE t \in f : TRUE
        q == t.e \div Unit
        r == (t.e % Unit) \div (Unit \div 12)
        g == GCD(num, t.m)
        up == (num \div g) * 100000 * (IF q < 0 THEN Pow2(0 - q) ELSE 1)
        dn == (t.m \div g) * SemitoneRatio[r + 1] * (IF q > 0 THEN Pow2(q) ELSE 1)
    IN (up \div dn) + (IF 2 * (up % dn) >= dn THEN 1 ELSE 0)

\* ----------------------------------------------------------------- inputs
Samples == {Zero, One, Neg(One)}
Noise == {One, Neg(One)}

\* an impulse of length len, and a buffer of alternating signs
Impulse(len) == [i \in 1..len |-> IF i = 1 THEN One ELSE Zero]
Alternating(len) == [i \in 1..len |-> IF i % 2 = 1 THEN One ELSE Neg(One)]

Buffers ==
    UNION {Seqs(Samples, len) : len \in 0..MaxLen}
      \cup {Impulse(5), Alternating(REF_LEN)}

\* alpha in (0, 1]: 1, 1/2 and 2^-10; outside it: 2, 0 and -1/2
ValidAlphas == {TwoTo(0), TwoTo(0 - 1), TwoTo(0 - 10)}
InvalidAlphas == {TwoTo(1), Zero, Neg(TwoTo(0 - 1))}
Alphas == ValidAlphas \cup InvalidAlphas

Lengths == (0 - 1)..MaxN

Chars == DOMAIN Ord
Notes == UNION {Seqs(Chars, len) : len \in 0..MaxNoteLen} \cup {<<"A", "#", "1", "0">>}

\* -------------------------------------------------------------------- state
VARIABLES
    pc,        \* where the running call is
    exc,       \* the exception the call raised, or "none"
    caller,    \* who called KS: "KS" (a direct call) or "ks_chord"
    x, N, alpha, a, y, n,   \* KS: arguments and locals
    fed,       \* KS: the indices at which the n-M >= 0 branch was taken
    written,   \* KS: the indices assigned so far, in the order of assignment
    note, f,   \* freq: argument and returned value
    chord, todo, cur, chord_y,   \* ks_chord: argument, notes left, note, y
    played,    \* ks_chord: per note so far, the buffer drawn and the alpha passed
    decay      \* the per-note decay factor the text asks for (no parameter takes it)

vars == <<pc, exc, caller, x, N, alpha, a, y, n, fed, written, note, f,
          chord, todo, cur, chord_y, played, decay>>

ksVars == <<x, N, alpha, a, y, n, fed, written>>
freqVars == <<note, f>>
chordVars == <<chord, todo, cur, chord_y, played, decay>>

Init ==
    /\ pc = "idle"
    /\ exc = "none"
    /\ caller = "KS"
    /\ x = <<>> /\ N = 0 /\ alpha = One /\ a = One /\ y = <<>> /\ n = 0
    /\ fed = {} /\ written = <<>>
    /\ note = <<>> /\ f = Zero
    /\ chord = <<>> /\ todo = {} /\ cur = <<>> /\ chord_y = <<>>
    /\ played = <<>>
    /\ decay = <<>>

\* ----------------------------------------------------------------------- KS
\* mutant: the coefficient without the normalisation, as in KS_3
CoefficientRaw(al, M) == al

\* a = alpha ** (float(M) / REF_LEN)
Coefficient(al, M) == PowValue(al, M, REF_LEN)

\* the head of KS, up to y = np.zeros(N); who is the caller
KSEnter(xx, NN, al, who) ==
    /\ x' = xx /\ N' = NN /\ alpha' = al
    /\ caller' = who
    /\ n' = 0 /\ fed' = {} /\ written' = <<>>
    /\ IF PowRaises(al, Len(xx), REF_LEN)
       THEN /\ pc' = who \o "_raised" /\ exc' = "ValueError"
            /\ a' = One /\ y' = <<>>
       ELSE IF NN < 0
       THEN /\ pc' = who \o "_raised" /\ exc' = "ValueError"
            /\ a' = Coefficient(al, Len(xx)) /\ y' = <<>>
       ELSE /\ pc' = "KS_loop" /\ exc' = "none"
            /\ a' = Coefficient(al, Len(xx)) /\ y' = Zeros(NN)

CallKS ==
    /\ pc = "idle"
    /\ \E xx \in Buffers, NN \in Lengths, al \in Alphas :
          KSEnter(xx, NN, al, "KS")
    /\ UNCHANGED <<freqVars, chordVars>>

\* mutant: the buffer injected again on every pass, as KS_1 repeats it
DirectLooped(xx, k) == IF Len(xx) > 0 THEN At(xx, k % Len(xx)) ELSE Zero

\* mutant: the feedback starting one sample late (n-M > 0)
FeedbackStrict(yy, k, M) == IF k - M > 0 THEN At(yy, k - M) ELSE Zero

\* mutant: the coefficient applied to the whole sum
SampleScaled(xx, yy, aa, k) ==
    Mul(aa, Add(IF k < Len(xx) THEN At(xx, k) ELSE Zero,
                IF k - Len(xx) >= 0 THEN At(yy, k - Len(xx)) ELSE Zero))

\* the two operands of the sum in the loop body
Direct(xx, k) == IF k < Len(xx) THEN At(xx, k) ELSE Zero
Feedback(yy, k, M) == IF k - M >= 0 THEN At(yy, k - M) ELSE Zero
Sample(xx, yy, aa, k) == Add(Direct(xx, k), Mul(aa, Feedback(yy, k, Len(xx))))

\* the loop of KS run to its end from index k, and the whole call
RECURSIVE KSFill(_, _, _, _, _)
KSFill(xx, NN, aa, yy, k) ==
    IF k >= NN THEN yy
    ELSE KSFill(xx, NN, aa, [yy EXCEPT ![k + 1] = Sample(xx, yy, aa, k)], k + 1)

KS(xx, NN, al) == KSFill(xx, NN, Coefficient(al, Len(xx)), Zeros(NN), 0)

\* mutant: the loop index advancing by two
NextIndexSkip(k) == k + 2

\* for n in range(0, N)
NextIndex(k) == k + 1

KSStep ==
    /\ pc = "KS_loop"
    /\ n < N
    /\ y' = [y EXCEPT ![n + 1] = Sample(x, y, a, n)]
    /\ fed' = IF n - Len(x) >= 0 THEN fed \cup {n} ELSE fed
    /\ written' = Append(written, n)
    /\ n' = NextIndex(n)
    /\ UNCHANGED <<pc, exc, caller, x, N, alpha, a, freqVars, chordVars>>

KSReturn ==
    /\ pc = "KS_loop"
    /\ n = N
    /\ pc' = IF caller = "KS" THEN "KS_done" ELSE "chord_add"
    /\ UNCHANGED <<exc, caller, ksVars, freqVars, chordVars>>

\* --------------------------------------------------------------------- freq
CallFreq ==
    /\ pc = "idle"
    /\ \E nt \in Notes :
          /\ note' = nt
          /\ f' = freq(nt).val
          /\ exc' = freq(nt).exc
          /\ pc' = IF freq(nt).exc = "none" THEN "freq_done" ELSE "freq_raised"
    /\ UNCHANGED <<caller, ksVars, chordVars>>

\* ----------------------------------------------------------------- ks_chord
\* A9 and C9 have buffers of 1 and 2 samples; H4 and Ax are not pitches
ChordNotes == {<<"A", "9">>, <<"C", "9">>, <<"H", "4">>, <<"A", "x">>}
Gains == {One, Num(3)}
ChordAlphas == {TwoTo(0), TwoTo(0 - 1)}

Chords ==
    UNION {[S -> Gains] : S \in {T \in SUBSET ChordNotes : Cardinality(T) <= MaxVoices}}

\* at most one note of the chord is asked to ring longer (decay factor 1)
Decays(ch) ==
    UNION {[S -> {TwoTo(0)}] : S \in {T \in SUBSET DOMAIN ch : Cardinality(T) <= 1}}

CallChord ==
    /\ pc = "idle"
    /\ \E ch \in Chords, NN \in (0 - 1)..MaxChordN, al \in ChordAlphas :
          /\ chord' = ch /\ N' = NN /\ alpha' = al
          /\ decay' \in Decays(ch)
          /\ todo' = DOMAIN ch
          /\ IF NN < 0
             THEN pc' = "ks_chord_raised" /\ exc' = "ValueError" /\ chord_y' = <<>>
             ELSE pc' = "chord_loop" /\ exc' = "none" /\ chord_y' = Zeros(NN)
    /\ UNCHANGED <<caller, x, a, y, n, fed, written, cur, played, freqVars>>

\* int(np.round(float(Fs) / freq(note)))
BufLen(fr) == RoundDiv(Fs, fr)

Extend(fn, k, v) == [j \in DOMAIN fn \cup {k} |-> IF j = k THEN v ELSE fn[j]]

\* the alpha ks_chord passes to KS for a note
VoiceAlpha(nt, al, dc) == al

\* one turn of the loop over chord.iteritems(), up to the call of KS
ChordVoice ==
    /\ pc = "chord_loop"
    /\ \E nt \in todo :
          /\ cur' = nt
          /\ todo' = todo \ {nt}
          /\ IF freq(nt).exc # "none"
             THEN /\ pc' = "ks_chord_raised" /\ exc' = freq(nt).exc
                  /\ UNCHANGED <<caller, ksVars, played>>
             ELSE IF freq(nt).val = Zero
             THEN /\ pc' = "ks_chord_raised" /\ exc' = "ZeroDivisionError"
                  /\ UNCHANGED <<caller, ksVars, played>>
             ELSE \E xx \in Seqs(Noise, BufLen(freq(nt).val)) :
                     /\ KSEnter(xx, N, VoiceAlpha(nt, alpha, decay), "ks_chord")
                     /\ played' = Extend(played, nt,
                                         [x |-> xx, alpha |-> VoiceAlpha(nt, alpha, decay)])
    /\ UNCHANGED <<chord, chord_y, decay, freqVars>>

\* mutant: the voice assigned instead of added
AccumulateOverwrite(acc, gain, voice) == Scale(gain, voice)

\* y = y + gain * KS(x, N, alpha)
Accumulate(acc, gain, voice) == VecAdd(acc, Scale(gain, voice))

ChordAdd ==
    /\ pc = "chord_add"
    /\ chord_y' = Accumulate(chord_y, chord[cur], y)
    /\ pc' = "chord_loop"
    /\ UNCHANGED <<exc, caller, ksVars, freqVars, chord, todo, cur, played, decay>>

ChordReturn ==
    /\ pc = "chord_loop"
    /\ todo = {}
    /\ pc' = "chord_done"
    /\ UNCHANGED <<exc, caller, ksVars, freqVars, chordVars>>

Next ==
    \/ CallKS
    \/ KSStep
    \/ KSReturn
    \/ CallFreq
    \/ CallChord
    \/ ChordVoice
    \/ ChordAdd
    \/ ChordReturn

Spec == Init /\ [][Next]_vars

FairSpec == Spec /\ WF_vars(KSStep) /\ WF_vars(KSReturn)

\* ------------------------------------------------------------------ claims
\* alpha in (0, 1], for the alphas of the model (0 and +-2^j)
InUnitInterval(al) == \E t \in al : al = {t} /\ t.m = 1 /\ t.e <= 0
IsNegative(al) == \E t \in al : t.m < 0

\* b^k for a natural number k, by repeated multiplication
RECURSIVE IntPow(_, _)
IntPow(b, k) == IF k <= 0 THEN One ELSE Mul(b, IntPow(b, k - 1))

\* KS has returned its buffer y, to the caller of KS or to ks_chord
KSReturned == pc \in {"KS_done", "chord_add"}
\* a and y have been set (line 306 is behind)
KSRunning == pc \in {"KS_loop", "KS_done", "chord_add"}

\* a^floor(k/M) * x[k mod M]
ClosedForm(xx, aa, k) == Mul(IntPow(aa, k \div Len(xx)), At(xx, k % Len(xx)))

\* C1: for an excitation of length M >= 1, N >= 0 and alpha in (0,1], KS
\* returns y of length N with y[n] = a^floor(n/M) * x[n mod M] for every
\* 0 <= n < N, where a is the per-loop coefficient, a^REF_LEN = alpha^M.
C1_ClosedForm ==
    (KSReturned /\ Len(x) >= 1 /\ InUnitInterval(alpha)) =>
        /\ Len(y) = N
        /\ IntPow(a, REF_LEN) = IntPow(alpha, Len(x))
        /\ \A k \in 0..(N - 1) : At(y, k) = ClosedForm(x, a, k)

\* the scenario: [1,0,0,0,0], N = 10, a = 1/2 gives [1,0,0,0,0,1/2,0,0,0,0]
C1_Witness ==
    /\ pc = "KS_done"
    /\ x = Impulse(5) /\ N = 10 /\ alpha = TwoTo(0 - 10) /\ a = TwoTo(0 - 1)
    /\ y = <<One, Zero, Zero, Zero, Zero, TwoTo(0 - 1), Zero, Zero, Zero, Zero>>

\* C2: when M > N, KS returns exactly the first N samples of the excitation,
\* whatever alpha is, and the n-M >= 0 branch is never taken.
C2_Truncation ==
    (KSReturned /\ Len(x) > N) =>
        /\ y = SubSeq(x, 1, N)
        /\ fed = {}

C2_Witness ==
    /\ pc = "KS_done"
    /\ Len(x) = 3 /\ N = 2 /\ alpha = TwoTo(0 - 1)
    /\ y = <<One, Neg(One)>>

\* C3: with alpha = 1 the output is periodic with period M once n >= M:
\* y[n] = y[n+M] for every n >= M with n+M < N, for every M >= 1.
C3_Periodic ==
    (KSReturned /\ alpha = One /\ Len(x) >= 1) =>
        \A k \in 0..(N - 1) :
            (k >= Len(x) /\ k + Len(x) < N) => At(y, k) = At(y, k + Len(x))

C3_Witness ==
    /\ pc = "KS_done"
    /\ alpha = One /\ x = <<One, Neg(One), Zero>> /\ N = 10
    /\ At(y, 4) = Neg(One) /\ At(y, 7) = Neg(One)

\* C4: a = alpha^(M/REF_LEN) with REF_LEN = 50: a^50 = alpha^M, a = alpha
\* when M = 50, and for any other length M2 the attenuation after n samples,
\* n a common multiple of M and M2, is the same: a^(n/M) = a2^(n/M2)
\* = alpha^(n/50).  Stated where the loop is entered: a is not assigned again.
C4_Normalised ==
    (pc = "KS_loop" /\ n = 0) =>
        /\ IntPow(a, REF_LEN) = IntPow(alpha, Len(x))
        /\ (Len(x) = REF_LEN => a = alpha)
        /\ (InUnitInterval(alpha) /\ Len(x) >= 1) =>
              \A M2 \in 1..(MaxLen + 2) :
                 LET k == Len(x) * M2 IN
                 /\ IntPow(a, k \div Len(x)) = IntPow(Coefficient(alpha, M2), k \div M2)
                 /\ IntPow(a, k \div Len(x)) = PowValue(alpha, k, REF_LEN)

C4_Witness ==
    /\ pc = "KS_loop" /\ n = 0
    /\ Len(x) = 2 /\ alpha = TwoTo(0 - 1)
    /\ a = {Term(0 - (2 * Unit) \div REF_LEN, 1)}
    /\ IntPow(a, 3) = IntPow(Coefficient(alpha, 3), 2)

\* ------------------------------------------------------------ freq claims
Letters == {"A", "B", "C", "D", "E", "F", "G"}
Digits == {"0", "1", "2", "3", "4", "5", "6", "7", "8", "9"}
DigitValue(c) == Cardinality({d \in Digits : Ord[d] < Ord[c]})
Last(nt) == nt[Len(nt)]

\* a letter A-G, an optional '#' or 'b', one octave digit
IsPitch(nt) ==
    /\ Len(nt) \in {2, 3}
    /\ nt[1] \in Letters
    /\ Len(nt) = 3 => nt[2] \in {"#", "b"}
    /\ Last(nt) \in Digits

PitchAcc(nt) == IF Len(nt) = 2 THEN 0 ELSE IF nt[2] = "#" THEN 1 ELSE 0 - 1
PitchOffset(nt) == 12 * (DigitValue(Last(nt)) - 4) + SEMITONES[nt[1]] + PitchAcc(nt)
OctaveUp(nt) ==
    [nt EXCEPT ![Len(nt)] =
        CHOOSE d \in Digits : DigitValue(d) = DigitValue(Last(nt)) + 1]

FreqReturned == pc \in {"freq_done", "freq_raised"}

C9_Fails == (FreqReturned /\ ~IsPitch(note)) => pc = "freq_raised"

\* C9 amended: freq returns 0, and does not fail, for a name that is not two
\* or three characters long, a first character outside A-G or a middle
\* character other than '#' and 'b'; it fails (ValueError) only for an octave
\* character that is not a digit, the rest of the name being accepted; and it
\* returns a non-zero frequency for every other name.
C9_ZeroOrValueError ==
    FreqReturned =>
        IF \/ Len(note) \notin {2, 3}
           \/ note[1] \notin Letters
           \/ (Len(note) = 3 /\ note[2] \notin {"#", "b"})
        THEN pc = "freq_done" /\ f = Zero /\ exc = "none"
        ELSE IF Last(note) \notin Digits
        THEN pc = "freq_raised" /\ exc = "ValueError"
        ELSE pc = "freq_done" /\ f # Zero /\ exc = "none"

C9_Witness ==
    /\ pc = "freq_done"
    /\ note = <<"H", "4">>
    /\ f = Zero

\* -------------------------------------------------------- ks_chord claims
\* gain_v * KS(x_v, N, alpha) for a note whose buffer has been drawn
VoiceOut(v) == Scale(chord[v], KS(played[v].x, N, alpha))

RECURSIVE SumVoices(_)
SumVoices(S) ==
    IF S = {} THEN Zeros(N)
    ELSE LET v == CHOOSE v \in S : TRUE IN VecAdd(SumVoices(S \ {v}), VoiceOut(v))

\* C6: the buffer of ks_chord has length N, starts as zeros and holds, between
\* two voices and at the return, the plain sum of gain_v * KS(x_v, N, alpha)
\* over the notes taken so far, in whatever order they were taken; an empty
\* chord returns N zeros.
C6_PlainSum ==
    pc \in {"chord_loop", "chord_done"} =>
        /\ Len(chord_y) = N
        /\ DOMAIN played = DOMAIN chord \ todo
        /\ chord_y = SumVoices(DOMAIN chord \ todo)
        /\ pc = "chord_done" => todo = {}
        /\ DOMAIN chord = {} => chord_y = Zeros(N)

C6_Witness ==
    /\ pc = "chord_done"
    /\ Cardinality(DOMAIN chord) = 2
    /\ N = 3 /\ alpha = TwoTo(0 - 1)
    /\ At(chord_y, 0) = Num(4)
    /\ At(chord_y, 2) # Zero

\* C7: a note given its own decay factor is played with that factor, the
\* other notes with the chord's alpha.
C7_DecayOverride ==
    \A v \in DOMAIN played :
        played[v].alpha = IF v \in DOMAIN decay THEN decay[v] ELSE alpha

\* -------------------------------------------------------------- KS errors
\* C8 as claimed: KS gives no buffer to a call with alpha outside (0,1] or
\* with an empty excitation.
C8_Rejects ==
    (caller = "KS" /\ pc \in {"KS_loop", "KS_done"}) =>
        (InUnitInterval(alpha) /\ Len(x) >= 1)

\* C8 amended: KS checks neither alpha nor M.  With alpha > 1 or alpha = 0, or
\* with an empty excitation, it returns a buffer of length N: the closed form
\* with a = alpha^(M/50) for M >= 1, N zeros for M = 0.  It fails only for a
\* negative alpha whose exponent M/50 is not a whole number and for N < 0, in
\* both cases with ValueError and before the output buffer exists.
C8_NoValidation ==
    /\ pc = "KS_raised" =>
          /\ exc = "ValueError"
          /\ y = <<>>
          /\ (IsNegative(alpha) /\ Len(x) % REF_LEN # 0) \/ N < 0
    /\ (caller = "KS" /\ pc \in {"KS_loop", "KS_done"}) =>
          /\ ~(IsNegative(alpha) /\ Len(x) % REF_LEN # 0)
          /\ N >= 0
          /\ Len(y) = N
    /\ (pc = "KS_done" /\ (~InUnitInterval(alpha) \/ Len(x) = 0)) =>
          /\ IntPow(a, REF_LEN) = IntPow(alpha, Len(x))
          /\ \A k \in 0..(N - 1) :
                At(y, k) = IF Len(x) = 0 THEN Zero ELSE ClosedForm(x, a, k)

C8_Witness ==
    /\ pc = "KS_done"
    /\ alpha = TwoTo(1) /\ x = <<One>> /\ N = 3
    /\ y = <<One, a, Mul(a, a)>>
    /\ Mul(a, a) # One

\* ------------------------------------------------------------ KS ordering
UpTo(k) == [i \in 1..k |-> i - 1]

C10_Inv ==
    KSRunning =>
        /\ Len(y) = N
        /\ n \in 0..N
        /\ written = UpTo(n)
        /\ \A k \in n..(N - 1) : At(y, k) = Zero
        /\ fed = {k \in 0..(n - 1) : k >= Len(x)}
        /\ KSReturned => n = N

\* one assignment of the loop: index n, and nothing else
C10_Assign ==
    /\ n < N
    /\ written' = Append(written, n)
    /\ n' = n + 1
    /\ \A k \in 0..(N - 1) : k # n => At(y', k) = At(y, k)

\* the sample fed back has been assigned before
C10_FedBackAssigned == \E i \in 1..Len(written) : written[i] = n - Len(x)

C10_Terminates == (pc = "KS_loop") ~> KSReturned

C10_StepAsClaimed ==
    (pc = "KS_loop" /\ written' # written) =>
        /\ C10_Assign
        /\ n >= Len(x) => C10_FedBackAssigned

\* C10 as claimed: the loop of KS assigns the indices 0, 1, ..., N-1 in this
\* order, each once; when y[n] is computed with n >= M, y[n-M] has been
\* assigned and no assigned index is assigned again; an index not yet reached
\* holds zero; the loop ends after exactly N steps.
C10_AsClaimed == []C10_Inv /\ [][C10_StepAsClaimed]_vars /\ C10_Terminates

C10_Step ==
    (pc = "KS_loop" /\ written' # written) =>
        /\ C10_Assign
        /\ (Len(x) >= 1 /\ n >= Len(x)) => C10_FedBackAssigned
        /\ Len(x) = 0 => (n - Len(x) = n /\ At(y, n) = Zero)

\* C10 amended: as claimed for an excitation of length M >= 1; with an empty
\* excitation (M = 0) the sample fed back is y[n] itself, read as the initial
\* zero before it is assigned.
C10_LeftToRight == []C10_Inv /\ [][C10_Step]_vars /\ C10_Terminates

C10_Witness ==
    /\ pc = "KS_done"
    /\ Len(x) = 2 /\ N = 5
    /\ written = <<0, 1, 2, 3, 4>>
    /\ fed = {2, 3, 4}

====
